---- MODULE Spec2Model ----
(***************************************************************************)
(* A model of go-gap-buffer: the byte gap buffer (GapBuffer) and the line  *)
(* length gap buffer (lineBuffer) it drives.                               *)
(*                                                                         *)
(* Strings and byte slices are sequences of byte values (0..255); Go's     *)
(* 0-based index i is position i+1 of the sequence.  A Go runtime panic    *)
(* (index or slice bounds out of range) ends the program: the operation    *)
(* that panics sets `panicked` and no operation runs afterwards.           *)
(***************************************************************************)
EXTENDS Integers, Sequences, FiniteSets, TLC

\* ------------------------------------------------------------------ bounds
\* largest initial capacity handed to NewCap / NewStrCap
MaxCap == 2
\* Insert, LeftDel and RightDel are only offered while the (possibly doubled)
\* array stays this small; larger buffers are only moved in
MaxSize == 4
\* number of Insert calls in one run of the program
MaxInserts == 1
\* longest text over {'a', '\n'} handed to the constructors
MaxCtorLen == 3

\* --------------------------------------------------------------- constants
defaultCapacity == 1024
lineCapFactor == 10
minLineCap == 10
growFactor == 2

NL == 10
RuneError == 65533
RuneSelf == 128
UTFMax == 4

\* the texts used as constructor and Insert arguments
StrA == <<97>>
StrNL == <<NL>>
StrO == <<195, 180>>
StrSmiley == <<240, 159, 152, 128>>
StrANLB == <<97, NL, 98>>
StrNLB == <<NL, 98>>
StrNLNL == <<NL, NL>>
StrEmpty == <<>>

InitStrs == {StrEmpty, StrA, StrO, StrNLB, StrNLNL}

\* the texts of the examples and tests: "Some text\nNo\nMore text",
\* "Hello\nWorld!" and "Hello, W\u00f4rld!"
StrSomeText ==
  <<83, 111, 109, 101, 32, 116, 101, 120, 116, NL, 78, 111, NL,
    77, 111, 114, 101, 32, 116, 101, 120, 116>>
StrHelloWorld == <<72, 101, 108, 108, 111, NL, 87, 111, 114, 108, 100, 33>>
StrHelloWorldO ==
  <<72, 101, 108, 108, 111, 44, 32, 87, 195, 180, 114, 108, 100, 33>>
\* two lines ending in a two-byte rune, "a\n\u00f4", and a text ending in a
\* newline, "ab\nc\n"
StrANLO == <<97, NL, 195, 180>>
StrABNLCNL == <<97, 98, NL, 99, NL>>
TextStrs == {StrSomeText, StrHelloWorld, StrHelloWorldO, StrANLO, StrABNLCNL}
InsertStrs == {StrEmpty, StrA, StrNL, StrO, StrSmiley, StrANLB}

\* ----------------------------------------------------------------- helpers
Max(a, b) == IF a > b THEN a ELSE b
Min(a, b) == IF a < b THEN a ELSE b
SetMax(S) == CHOOSE x \in S : \A y \in S : y <= x

\* make([]T, n): n zero values
Zeros(n) == [i \in 1..n |-> 0]

\* Go's s[a:b] for 0 <= a <= b <= len(s)
Slice(s, a, b) == SubSeq(s, a + 1, b)

\* Go's copy(dst[at:], src): copies min(len(dst)-at, len(src)) elements
CopyAt(dst, at, src) ==
  [i \in 1..Len(dst) |->
     IF i > at /\ i <= at + Len(src) THEN src[i - at] ELSE dst[i]]

RECURSIVE SumSeq(_)
SumSeq(s) == IF s = <<>> THEN 0 ELSE s[1] + SumSeq(Tail(s))

RECURSIVE CountNL(_)
CountNL(s) == IF s = <<>> THEN 0
              ELSE (IF s[1] = NL THEN 1 ELSE 0) + CountNL(Tail(s))

\* ------------------------------------------------------------ unicode/utf8
RuneStart(b) == b < 128 \/ b >= 192

\* size of the encoding announced by a lead byte; 0 for bytes that cannot
\* start a multi-byte encoding (the `first` table of unicode/utf8)
LeadSize(b) ==
  IF b >= 194 /\ b <= 223 THEN 2
  ELSE IF b >= 224 /\ b <= 239 THEN 3
  ELSE IF b >= 240 /\ b <= 244 THEN 4
  ELSE 0

\* accepted range of the second byte (the `acceptRanges` table)
AcceptLo(b) == IF b = 224 THEN 160 ELSE IF b = 240 THEN 144 ELSE 128
AcceptHi(b) == IF b = 237 THEN 159 ELSE IF b = 244 THEN 143 ELSE 191

Cont(b) == b >= 128 /\ b <= 191

\* utf8.DecodeRune: the first rune of p and its width in bytes
DecodeRune(p) ==
  IF Len(p) < 1 THEN [r |-> RuneError, size |-> 0]
  ELSE IF p[1] < RuneSelf THEN [r |-> p[1], size |-> 1]
  ELSE LET sz == LeadSize(p[1]) IN
    IF sz = 0 \/ Len(p) < sz THEN [r |-> RuneError, size |-> 1]
    ELSE IF p[2] < AcceptLo(p[1]) \/ AcceptHi(p[1]) < p[2]
      THEN [r |-> RuneError, size |-> 1]
    ELSE IF sz = 2
      THEN [r |-> (p[1] % 32) * 64 + (p[2] % 64), size |-> 2]
    ELSE IF ~Cont(p[3]) THEN [r |-> RuneError, size |-> 1]
    ELSE IF sz = 3
      THEN [r |-> (p[1] % 16) * 4096 + (p[2] % 64) * 64 + (p[3] % 64),
            size |-> 3]
    ELSE IF ~Cont(p[4]) THEN [r |-> RuneError, size |-> 1]
    ELSE [r |-> (p[1] % 8) * 262144 + (p[2] % 64) * 4096
                 + (p[3] % 64) * 64 + (p[4] % 64),
          size |-> 4]

\* utf8.DecodeLastRune: the last rune of p and its width in bytes
DecodeLastRune(p) ==
  IF Len(p) = 0 THEN [r |-> RuneError, size |-> 0]
  ELSE IF p[Len(p)] < RuneSelf THEN [r |-> p[Len(p)], size |-> 1]
  ELSE LET end0 == Len(p)
           lim == Max(end0 - UTFMax, 0)
           cands == {s \in lim..(end0 - 2) : RuneStart(p[s + 1])}
           st0 == IF cands = {} THEN lim - 1 ELSE SetMax(cands)
           st == IF st0 < 0 THEN 0 ELSE st0
           dr == DecodeRune(Slice(p, st, end0))
       IN IF st + dr.size # end0 THEN [r |-> RuneError, size |-> 1] ELSE dr

\* utf8.RuneCount: invalid and short encodings count as one rune per byte
RECURSIVE RuneCount(_)
RuneCount(p) ==
  IF p = <<>> THEN 0
  ELSE 1 + RuneCount(SubSeq(p, DecodeRune(p).size + 1, Len(p)))

\* ---------------------------------------------------------------- strings
\* strings.Cut(str, "\n"): the text before the first newline and after it
CutBefore(str) ==
  IF \E i \in 1..Len(str) : str[i] = NL
  THEN SubSeq(str, 1, (CHOOSE i \in 1..Len(str) :
                         str[i] = NL /\ \A j \in 1..(i - 1) : str[j] # NL) - 1)
  ELSE str
CutAfter(str) ==
  IF \E i \in 1..Len(str) : str[i] = NL
  THEN SubSeq(str, (CHOOSE i \in 1..Len(str) :
                      str[i] = NL /\ \A j \in 1..(i - 1) : str[j] # NL) + 1,
              Len(str))
  ELSE <<>>

RECURSIVE newlineSplit(_)
newlineSplit(str) ==
  IF CutAfter(str) = <<>> THEN <<CutBefore(str)>>
  ELSE <<CutBefore(str)>> \o newlineSplit(CutAfter(str))

HasSuffixNL(str) == Len(str) > 0 /\ str[Len(str)] = NL

lineLengths(str) ==
  LET lines0 == newlineSplit(str)
      lens == [i \in 1..Len(lines0) |-> Len(lines0[i]) + 1]
  IN IF HasSuffixNL(str) THEN Append(lens, 0)
     ELSE [lens EXCEPT ![Len(lens)] = @ - 1]

\* -------------------------------------------------------------- lineBuffer
\* a lineBuffer is a record [start, end, lengths]

InRange(i, s) == i >= 0 /\ i < Len(s)

newLineBuf(c) ==
  LET cR == Max(c \div lineCapFactor, minLineCap)
  IN [start |-> 0, end |-> cR, lengths |-> Zeros(cR)]

size(l) == Len(l.lengths)
lastIdx(l) == Len(l.lengths) - 1
curLine(l) == l.start + 1
isLastLine(l) == l.end = size(l)

curLineLengthPanics(l) == ~InRange(l.start, l.lengths)
curLineLength(l) == l.lengths[l.start + 1]

curLineStartPanics(l) == l.start # 0 /\ (l.start < 0 \/ l.start > size(l))
curLineStart(l) ==
  IF l.start = 0 THEN 0 ELSE SumSeq(Slice(l.lengths, 0, l.start))

curLineEndPanics(l) == ~InRange(l.start, l.lengths)

\* a faulty curLineEnd: one is subtracted for a line of length zero too
curLineEndAlwaysMinusOne(l) ==
  SumSeq(Slice(l.lengths, 0, l.start + 1)) - 1
curLineEnd(l) ==
  LET sum == SumSeq(Slice(l.lengths, 0, l.start + 1))
  IN IF curLineLength(l) = 0 THEN sum ELSE sum - 1

upPanics(l) == ~InRange(l.end - 1, l.lengths) \/ ~InRange(l.start, l.lengths)
up(l) == [start |-> l.start - 1, end |-> l.end - 1,
          lengths |-> [l.lengths EXCEPT ![l.end] = l.lengths[l.start + 1]]]

upDel(l) == [l EXCEPT !.start = l.start - 1]

downPanics(l) == ~InRange(l.start + 1, l.lengths) \/ ~InRange(l.end, l.lengths)
down(l) == [start |-> l.start + 1, end |-> l.end + 1,
            lengths |-> [l.lengths EXCEPT ![l.start + 2] = l.lengths[l.end + 1]]]

downDel(l) == [l EXCEPT !.end = l.end + 1]

delPanics(l) == ~InRange(l.start, l.lengths)
del(l, b) ==
  IF l.lengths[l.start + 1] = 0 THEN l
  ELSE [l EXCEPT !.lengths[l.start + 1] = @ - b]

lineGrowPanics(l) ==
  \/ l.start + 1 < 0 \/ l.start + 1 > size(l)
  \/ l.end < 0 \/ l.end > size(l)

\* a faulty grow of the line index: the slot of the current line is not
\* carried over
lineGrowForgetsCurrent(l) ==
  LET tmp == Zeros(growFactor * size(l))
      t1 == CopyAt(tmp, 0, Slice(l.lengths, 0, l.start))
      nE == Len(tmp) - (size(l) - l.end)
  IN [start |-> l.start, end |-> nE,
      lengths |-> CopyAt(t1, nE, Slice(l.lengths, l.end, size(l)))]
lineGrow(l) ==
  LET tmp == Zeros(growFactor * size(l))
      t1 == CopyAt(tmp, 0, Slice(l.lengths, 0, l.start + 1))
      nE == Len(tmp) - (size(l) - l.end)
  IN [start |-> l.start, end |-> nE,
      lengths |-> CopyAt(t1, nE, Slice(l.lengths, l.end, size(l)))]

\* the line buffer after the optional grow at the head of insert
insertGrown(l, str) ==
  IF l.end - l.start < Len(lineLengths(str)) + 1 THEN lineGrow(l) ELSE l

insertPanics(l, str, pos) ==
  /\ Len(str) # 0
  /\ \/ (l.end - l.start < Len(lineLengths(str)) + 1 /\ lineGrowPanics(l))
     \/ curLineStartPanics(insertGrown(l, str))
     \/ curLineLengthPanics(insertGrown(l, str))
     \/ \E idx \in 0..(Len(lineLengths(str)) - 1) :
          ~InRange(l.start + idx, insertGrown(l, str).lengths)

insert(l, str, pos) ==
  IF Len(str) = 0 THEN l
  ELSE LET lens0 == lineLengths(str)
           n == Len(lens0)
           lg == insertGrown(l, str)
           lens1 == [lens0 EXCEPT ![1] = @ + pos - curLineStart(lg)]
           lens == [lens1 EXCEPT
                      ![n] = @ + curLineStart(lg) + curLineLength(lg) - pos]
       IN [start |-> lg.start + n - 1, end |-> lg.end,
           lengths |-> CopyAt(lg.lengths, lg.start, lens)]

newLineBufStr(s, c) == insert(newLineBuf(c), s, 0)

\* --------------------------------------------------------------- GapBuffer
\* a GapBuffer is a record [start, end, wantsCol, data, lines, panic];
\* panic is TRUE once a call has ended in a runtime panic

Panic(g) == [g EXCEPT !.panic = TRUE]

\* g.data[:g.start] or g.data[g.end:] is out of range: String and
\* StringPair panic
StringPanics(g) ==
  g.start < 0 \/ g.start > Len(g.data) \/ g.end < 0 \/ g.end > Len(g.data)

String(g) == Slice(g.data, 0, g.start) \o Slice(g.data, g.end, Len(g.data))

StringPair(g) == <<Slice(g.data, 0, g.start), Slice(g.data, g.end, Len(g.data))>>

\* a faulty StringLength: the bytes left of the gap are not counted
StringLengthLeftForgotten(g) == Len(g.data) - g.end
StringLength(g) == Len(g.data) - (g.end - g.start)

Size(g) == Len(g.data)

NewCap(sz) ==
  [start |-> 0, end |-> sz, wantsCol |-> 0, data |-> Zeros(sz),
   lines |-> newLineBuf(sz), panic |-> FALSE]

\* l.insert(s, 0) in newLineBufStr indexes past the line buffer: the
\* constructor panics and returns no GapBuffer
NewStrCapPanics(s, c) ==
  insertPanics(newLineBuf(Max(c, Len(s) * growFactor)), s, 0)

NewStrCap(s, c) ==
  LET sz == Max(c, Len(s) * growFactor)
      dat == CopyAt(Zeros(sz), 0, s)
      sIdx == Min(Len(s), sz)
      lines0 == newLineBufStr(s, sz)
      lineStart == curLineStart(lines0)
      runeCol == IF lineStart < sIdx
                 THEN RuneCount(Slice(dat, lineStart, sIdx)) ELSE 0
  IN IF NewStrCapPanics(s, c)
     THEN [start |-> sIdx, end |-> sz, wantsCol |-> 0, data |-> dat,
           lines |-> newLineBuf(sz), panic |-> TRUE]
     ELSE [start |-> sIdx, end |-> sz, wantsCol |-> runeCol, data |-> dat,
           lines |-> lines0, panic |-> FALSE]

New == NewCap(defaultCapacity)

NewStr(s) == NewStrCap(s, defaultCapacity)

ColPanics(g) == curLineStartPanics(g.lines)
Col(g) ==
  IF g.start < curLineStart(g.lines) THEN 0
  ELSE g.start - curLineStart(g.lines)

RuneColPanics(g) ==
  \/ curLineStartPanics(g.lines)
  \/ /\ g.start >= curLineStart(g.lines)
     /\ (curLineStart(g.lines) < 0 \/ g.start > Len(g.data))
RuneCol(g) ==
  IF g.start < curLineStart(g.lines) THEN 0
  ELSE RuneCount(Slice(g.data, curLineStart(g.lines), g.start))

LineLength(g) == curLineLength(g.lines) + 1

Line(g) == curLine(g.lines)

LineCol(g) == <<curLine(g.lines), Col(g)>>

LineRuneCol(g) == <<curLine(g.lines), RuneCol(g)>>

\* the closing statement g.wantsCol = g.RuneCol() of a call that started in g0
SetWantsCol(g0, g) ==
  IF RuneColPanics(g) THEN Panic(g0) ELSE [g EXCEPT !.wantsCol = RuneCol(g)]

LeftDel(g) ==
  IF g.panic \/ g.start < 1 THEN g
  ELSE IF g.start > Len(g.data) THEN Panic(g)
  ELSE LET dr == DecodeLastRune(Slice(g.data, 0, g.start))
           g1 == [g EXCEPT !.start = @ - dr.size]
       IN IF dr.r = NL
          THEN SetWantsCol(g, [g1 EXCEPT !.lines = upDel(@)])
          ELSE IF delPanics(g1.lines) THEN Panic(g)
          ELSE SetWantsCol(g, [g1 EXCEPT !.lines = del(@, dr.size)])

\* a faulty RightDel: the gap swallows one byte, not one rune
RightDelOneByte(g) ==
  IF g.panic \/ g.end > Len(g.data) - 1 THEN g
  ELSE IF g.end < 0 THEN Panic(g)
  ELSE LET dr == DecodeRune(Slice(g.data, g.end, Len(g.data)))
           g1 == [g EXCEPT !.end = @ + 1]
       IN IF dr.r = NL
          THEN [g1 EXCEPT !.lines = downDel(@)]
          ELSE IF delPanics(g1.lines) THEN Panic(g)
          ELSE [g1 EXCEPT !.lines = del(@, 1)]
RightDel(g) ==
  IF g.panic \/ g.end > Len(g.data) - 1 THEN g
  ELSE IF g.end < 0 THEN Panic(g)
  ELSE LET dr == DecodeRune(Slice(g.data, g.end, Len(g.data)))
           g1 == [g EXCEPT !.end = @ + dr.size]
       IN IF dr.r = NL
          THEN [g1 EXCEPT !.lines = downDel(@)]
          ELSE IF delPanics(g1.lines) THEN Panic(g)
          ELSE [g1 EXCEPT !.lines = del(@, dr.size)]

\* a faulty LeftMv: the guard lets the call through at the start of the text
LeftMvAtStart(g) ==
  IF g.panic \/ g.start < 0 THEN g
  ELSE IF g.start > Len(g.data) THEN Panic(g)
  ELSE LET dr == DecodeLastRune(Slice(g.data, 0, g.start))
           d == dr.size
           nE == g.end - d
       IN IF nE < 0 \/ nE > Len(g.data) THEN Panic(g)
          ELSE LET g1 == [g EXCEPT
                            !.end = nE,
                            !.data = CopyAt(g.data, nE,
                                            Slice(g.data, g.start - d, g.start)),
                            !.start = g.start - d]
               IN IF dr.r = NL
                  THEN IF upPanics(g1.lines) THEN Panic(g)
                       ELSE SetWantsCol(g, [g1 EXCEPT !.lines = up(@)])
                  ELSE SetWantsCol(g, g1)
LeftMv(g) ==
  IF g.panic \/ g.start < 1 THEN g
  ELSE IF g.start > Len(g.data) THEN Panic(g)
  ELSE LET dr == DecodeLastRune(Slice(g.data, 0, g.start))
           d == dr.size
           nE == g.end - d
       IN IF nE < 0 \/ nE > Len(g.data) THEN Panic(g)
          ELSE LET g1 == [g EXCEPT
                            !.end = nE,
                            !.data = CopyAt(g.data, nE,
                                            Slice(g.data, g.start - d, g.start)),
                            !.start = g.start - d]
               IN IF dr.r = NL
                  THEN IF upPanics(g1.lines) THEN Panic(g)
                       ELSE SetWantsCol(g, [g1 EXCEPT !.lines = up(@)])
                  ELSE SetWantsCol(g, g1)

RightMv(g) ==
  IF g.panic \/ g.start > Len(g.data) - 2 \/ g.end > Len(g.data) - 1 THEN g
  ELSE IF g.end < 0 \/ g.start < 0 THEN Panic(g)
  ELSE LET dr == DecodeRune(Slice(g.data, g.end, Len(g.data)))
           d == dr.size
           g1 == [g EXCEPT
                    !.data = CopyAt(g.data, g.start,
                                    Slice(g.data, g.end, g.end + d)),
                    !.start = g.start + d,
                    !.end = g.end + d]
       IN IF dr.r = NL
          THEN IF downPanics(g1.lines) THEN Panic(g)
               ELSE SetWantsCol(g, [g1 EXCEPT !.lines = down(@)])
          ELSE SetWantsCol(g, g1)

\* the loop of UpMv: the new cursor offset, or a panic of g.data[idx:]
RECURSIVE UpLoop(_, _, _, _, _)
UpLoop(g, idx, runeCnt, newStart, max) ==
  IF idx < max + 1
  THEN IF runeCnt = g.wantsCol THEN [newStart |-> idx, panic |-> FALSE]
       ELSE IF idx < 0 \/ idx > Len(g.data)
       THEN [newStart |-> idx, panic |-> TRUE]
       ELSE UpLoop(g, idx + DecodeRune(Slice(g.data, idx, Len(g.data))).size,
                   runeCnt + 1, idx, max)
  ELSE [newStart |-> newStart, panic |-> FALSE]

\* a faulty UpMv: the move refreshes the desired column as a horizontal move
\* does
UpMvRefreshesWantsCol(g) ==
  IF g.panic \/ curLine(g.lines) = 1 THEN g
  ELSE IF upPanics(g.lines) THEN Panic(g)
  ELSE LET l1 == up(g.lines) IN
    IF curLineStartPanics(l1) \/ curLineEndPanics(l1) THEN Panic(g)
    ELSE LET lineStart == curLineStart(l1)
             lp == UpLoop(g, lineStart, 0, lineStart, curLineEnd(l1))
             newStart == lp.newStart
             nE == g.end - (g.start - newStart)
         IN IF lp.panic THEN Panic(g)
            ELSE IF \/ nE < 0 \/ nE > Len(g.data)
                    \/ newStart < 0 \/ newStart > g.start
                    \/ g.start > Len(g.data)
            THEN Panic(g)
            ELSE [g EXCEPT
                    !.lines = l1,
                    !.end = nE,
                    !.data = CopyAt(g.data, nE,
                                    Slice(g.data, newStart, g.start)),
                    !.start = newStart,
                    !.wantsCol =
                      RuneCount(Slice(g.data, lineStart, newStart))]
UpMv(g) ==
  IF g.panic \/ curLine(g.lines) = 1 THEN g
  ELSE IF upPanics(g.lines) THEN Panic(g)
  ELSE LET l1 == up(g.lines) IN
    IF curLineStartPanics(l1) \/ curLineEndPanics(l1) THEN Panic(g)
    ELSE LET lineStart == curLineStart(l1)
             lp == UpLoop(g, lineStart, 0, lineStart, curLineEnd(l1))
             newStart == lp.newStart
             nE == g.end - (g.start - newStart)
         IN IF lp.panic THEN Panic(g)
            ELSE IF \/ nE < 0 \/ nE > Len(g.data)
                    \/ newStart < 0 \/ newStart > g.start
                    \/ g.start > Len(g.data)
            THEN Panic(g)
            ELSE [g EXCEPT
                    !.lines = l1,
                    !.end = nE,
                    !.data = CopyAt(g.data, nE,
                                    Slice(g.data, newStart, g.start)),
                    !.start = newStart]

\* the loop of DownMv: the byte offset idx and the runes counted
RECURSIVE DownLoop(_, _, _)
DownLoop(g, idx, runeCnt) ==
  IF g.end + idx >= Len(g.data)
  THEN [idx |-> idx, runeCnt |-> runeCnt, panic |-> FALSE]
  ELSE IF g.end + idx < 0
  THEN [idx |-> idx, runeCnt |-> runeCnt, panic |-> TRUE]
  ELSE IF g.data[g.end + idx + 1] = NL \/ runeCnt = g.wantsCol
  THEN [idx |-> idx, runeCnt |-> runeCnt, panic |-> FALSE]
  ELSE LET d == DecodeRune(Slice(g.data, g.end + idx, Len(g.data))).size
       IN IF g.end + idx + d > Len(g.data) - 1
          THEN [idx |-> idx, runeCnt |-> runeCnt, panic |-> FALSE]
          ELSE DownLoop(g, idx + d, runeCnt + 1)

DownMv(g) ==
  IF g.panic \/ g.lines.end > lastIdx(g.lines) THEN g
  ELSE IF curLineEndPanics(g.lines) \/ curLineLengthPanics(g.lines)
  THEN Panic(g)
  ELSE LET nl0 == curLineEnd(g.lines) + 1 - g.start
           newLine == IF curLineLength(g.lines) = 0 \/ isLastLine(g.lines)
                      THEN nl0 - 1 ELSE nl0
           lp == DownLoop(g, newLine, 0)
           idx == lp.idx
       IN IF lp.panic THEN Panic(g)
          ELSE IF \/ g.start < 0 \/ g.start > Len(g.data)
                  \/ g.end < 0 \/ idx < 0 \/ g.end + idx > Len(g.data)
          THEN Panic(g)
          ELSE LET dat1 == CopyAt(g.data, g.start,
                                  Slice(g.data, g.end, g.end + idx))
                   step == IF idx = 0 THEN 1 ELSE idx
                   s1 == g.start + step
                   e1 == g.end + step
                   last == e1 = Len(g.data) - 1 /\ lp.runeCnt < g.wantsCol
               IN IF last /\ ~InRange(s1, dat1) THEN Panic(g)
                  ELSE IF downPanics(g.lines) THEN Panic(g)
                  ELSE [g EXCEPT
                          !.data = IF last
                                   THEN [dat1 EXCEPT ![s1 + 1] = dat1[e1 + 1]]
                                   ELSE dat1,
                          !.start = IF last THEN s1 + 1 ELSE s1,
                          !.end = IF last THEN e1 + 1 ELSE e1,
                          !.lines = down(g.lines)]

growPanics(g) == g.start > Len(g.data) \/ g.end < 0 \/ g.end > Len(g.data)

\* a faulty grow: the bytes right of the gap are not carried over
growDropsRight(g) ==
  LET tmp == Zeros(Len(g.data) * growFactor)
  IN [g EXCEPT !.end = Len(tmp) - (Len(g.data) - g.end),
               !.data = CopyAt(tmp, 0, Slice(g.data, 0, g.start))]
grow(g) ==
  LET tmp == Zeros(Len(g.data) * growFactor)
      t1 == CopyAt(tmp, 0, Slice(g.data, 0, g.start))
      nE == Len(tmp) - (Len(g.data) - g.end)
  IN [g EXCEPT !.end = nE,
               !.data = CopyAt(t1, nE, Slice(g.data, g.end, Len(g.data)))]

\* a faulty Insert: the cursor stays in front of the inserted text
InsertKeepsCursor(g, str) ==
  IF g.panic THEN g
  ELSE IF g.end - g.start < Len(str) + 1 /\ growPanics(g) THEN Panic(g)
  ELSE LET g1 == IF g.end - g.start < Len(str) + 1 THEN grow(g) ELSE g
       IN IF insertPanics(g1.lines, str, g1.start) \/ g1.start > Len(g1.data)
          THEN Panic(g)
          ELSE SetWantsCol(g, [g1 EXCEPT
                                 !.lines = insert(@, str, g1.start),
                                 !.data = CopyAt(g1.data, g1.start, str)])
Insert(g, str) ==
  IF g.panic THEN g
  ELSE IF g.end - g.start < Len(str) + 1 /\ growPanics(g) THEN Panic(g)
  ELSE LET g1 == IF g.end - g.start < Len(str) + 1 THEN grow(g) ELSE g
       IN IF insertPanics(g1.lines, str, g1.start) \/ g1.start > Len(g1.data)
          THEN Panic(g)
          ELSE LET l == Min(Len(g1.data) - g1.start, Len(str))
               IN SetWantsCol(g, [g1 EXCEPT
                                    !.lines = insert(@, str, g1.start),
                                    !.data = CopyAt(g1.data, g1.start, str),
                                    !.start = g1.start + l])

\* ------------------------------------------------------------------- state
\* start, end, wantsCol, data, lines: the fields of the GapBuffer the program
\* holds; panicked: a call has ended in a runtime panic.
\* History of the last call: op its name, arg the text handed to Insert,
\* pre the value of StringPair() before it (<<>> when that query panics);
\* inserts counts the Insert calls so far.
VARIABLES start, end, wantsCol, data, lines, panicked, op, arg, pre, inserts

vars == <<start, end, wantsCol, data, lines, panicked, op, arg, pre, inserts>>

\* the GapBuffer the program holds
G == [start |-> start, end |-> end, wantsCol |-> wantsCol, data |-> data,
      lines |-> lines, panic |-> panicked]

\* the program holds g after the call named o with argument a
Becomes(g, o, a) ==
  /\ start' = g.start
  /\ end' = g.end
  /\ wantsCol' = g.wantsCol
  /\ data' = g.data
  /\ lines' = g.lines
  /\ panicked' = g.panic
  /\ op' = o
  /\ arg' = a
  /\ pre' = IF StringPanics(G) THEN <<>> ELSE StringPair(G)

Caps == 0..MaxCap

Init ==
  \E g \in {NewCap(c) : c \in Caps}
           \cup {NewStrCap(s, c) : s \in InitStrs \cup TextStrs, c \in Caps} :
    /\ start = g.start
    /\ end = g.end
    /\ wantsCol = g.wantsCol
    /\ data = g.data
    /\ lines = g.lines
    /\ panicked = g.panic
    /\ op = "New"
    /\ arg = <<>>
    /\ pre = <<>>
    /\ inserts = 0

DoInsert ==
  /\ ~panicked
  /\ inserts < MaxInserts
  /\ \E str \in InsertStrs :
       LET g == Insert(G, str)
       IN /\ Size(g) <= MaxSize
          /\ Becomes(g, "Insert", str)
          /\ inserts' = inserts + 1

DoLeftMv ==
  ~panicked /\ Becomes(LeftMv(G), "LeftMv", <<>>) /\ UNCHANGED inserts

DoRightMv ==
  ~panicked /\ Becomes(RightMv(G), "RightMv", <<>>) /\ UNCHANGED inserts

DoUpMv ==
  ~panicked /\ Becomes(UpMv(G), "UpMv", <<>>) /\ UNCHANGED inserts

DoDownMv ==
  ~panicked /\ Becomes(DownMv(G), "DownMv", <<>>) /\ UNCHANGED inserts

DoLeftDel ==
  /\ ~panicked
  /\ Size(G) <= MaxSize
  /\ Becomes(LeftDel(G), "LeftDel", <<>>)
  /\ UNCHANGED inserts

DoRightDel ==
  /\ ~panicked
  /\ Size(G) <= MaxSize
  /\ Becomes(RightDel(G), "RightDel", <<>>)
  /\ UNCHANGED inserts

Next ==
  \/ DoInsert
  \/ DoLeftMv
  \/ DoRightMv
  \/ DoUpMv
  \/ DoDownMv
  \/ DoLeftDel
  \/ DoRightDel

Spec == Init /\ [][Next]_vars

\* ------------------------------------------------------------ construction
\* A program that only constructs buffers: each call replaces the buffer it
\* holds; arg records the call's arguments <<s, c>>.

\* twenty empty lines and an empty last line
StrNL20 == [i \in 1..20 |-> NL]
StrHelloCommaWorld ==
  <<72, 101, 108, 108, 111, 44, 32, 87, 111, 114, 108, 100, 33>>

CtorStrs ==
  UNION {[1..n -> {97, NL}] : n \in 0..MaxCtorLen}
    \cup {StrO, StrSmiley, StrHelloCommaWorld, StrNL20} \cup TextStrs

CtorCaps == Caps \cup {10, defaultCapacity}

\* the program holds g, returned by the constructor named o called with the
\* text s and the capacity c
Constructed(g, o, s, c) ==
  /\ start' = g.start
  /\ end' = g.end
  /\ wantsCol' = g.wantsCol
  /\ data' = g.data
  /\ lines' = g.lines
  /\ panicked' = g.panic
  /\ op' = o
  /\ arg' = <<s, c>>
  /\ pre' = <<>>
  /\ inserts' = 0

\* no buffer has been constructed yet
InitNew ==
  /\ start = 0
  /\ end = 0
  /\ wantsCol = 0
  /\ data = <<>>
  /\ lines = [start |-> 0, end |-> 0, lengths |-> <<>>]
  /\ panicked = FALSE
  /\ op = "none"
  /\ arg = <<>>
  /\ pre = <<>>
  /\ inserts = 0

DoNew ==
  ~panicked /\ Constructed(New, "New", <<>>, defaultCapacity)

DoNewCap ==
  ~panicked /\ \E c \in CtorCaps : Constructed(NewCap(c), "NewCap", <<>>, c)

DoNewStr ==
  /\ ~panicked
  /\ \E s \in CtorStrs : Constructed(NewStr(s), "NewStr", s, defaultCapacity)

DoNewStrCap ==
  /\ ~panicked
  /\ \E s \in CtorStrs, c \in CtorCaps :
       Constructed(NewStrCap(s, c), "NewStrCap", s, c)

NextNew ==
  \/ DoNew
  \/ DoNewCap
  \/ DoNewStr
  \/ DoNewStrCap

SpecNew == InitNew /\ [][NextNew]_vars

\* ------------------------------------------------------- malformed input
\* The program of Spec, which may also hand Insert a text that is not
\* well-formed UTF-8: a byte that starts no encoding, a lead byte without its
\* continuation, a continuation byte without a lead.
StrFF == <<255>>
StrLead == <<195>>
StrContA == <<128, 97>>
RawStrs == {StrFF, StrLead, StrContA}

DoInsertRaw ==
  /\ ~panicked
  /\ inserts < MaxInserts
  /\ \E str \in RawStrs :
       LET g == Insert(G, str)
       IN /\ Size(g) <= MaxSize
          /\ Becomes(g, "Insert", str)
          /\ inserts' = inserts + 1

NextRaw ==
  \/ DoInsert
  \/ DoInsertRaw
  \/ DoLeftMv
  \/ DoRightMv
  \/ DoUpMv
  \/ DoDownMv
  \/ DoLeftDel
  \/ DoRightDel

SpecRaw == Init /\ [][NextRaw]_vars

\* ---------------------------------------------------- "Hello World!" run
\* The program of TestInsertWithNewlines: a buffer of the default capacity
\* built from "Hello World!", horizontal cursor moves, and one Insert of
\* "\nfunny\n".
StrHelloSpaceWorld == <<72, 101, 108, 108, 111, 32, 87, 111, 114, 108, 100, 33>>
StrFunny == <<NL, 102, 117, 110, 110, 121, NL>>

InitHello ==
  LET g == NewStr(StrHelloSpaceWorld)
  IN /\ start = g.start
     /\ end = g.end
     /\ wantsCol = g.wantsCol
     /\ data = g.data
     /\ lines = g.lines
     /\ panicked = g.panic
     /\ op = "New"
     /\ arg = <<>>
     /\ pre = <<>>
     /\ inserts = 0

DoInsertFunny ==
  /\ ~panicked
  /\ inserts = 0
  /\ Becomes(Insert(G, StrFunny), "Insert", StrFunny)
  /\ inserts' = 1

NextHello ==
  \/ DoInsertFunny
  \/ DoLeftMv
  \/ DoRightMv

SpecHello == InitHello /\ [][NextHello]_vars

\* ------------------------------------------------------------------ claims
\* the call before this state was o, from a state whose StringPair() returned
Called(o) == op = o /\ Len(pre) = 2

\* the current value of StringPair() and the one before the last call
Left == StringPair(G)[1]
Right == StringPair(G)[2]
PreLeft == pre[1]
PreRight == pre[2]

\* dr is the decoding of a well-formed rune (not the width-1 RuneError that
\* stands for an invalid or short encoding)
IsRune(dr) == dr.size >= 1 /\ ~(dr.r = RuneError /\ dr.size = 1)

\* C1: after Insert(s) from a state with StringPair() = (l, r), the call has
\* returned and StringPair() = (l + s, r)
C1_InsertAtCursor ==
  Called("Insert") =>
    /\ ~panicked
    /\ ~StringPanics(G)
    /\ StringPair(G) = <<PreLeft \o arg, PreRight>>

\* C2: LeftMv from a state with StringPair() = (l' + c, r), c the last rune of
\* the left part, returns with StringPair() = (l', c + r)
C2_LeftMvOneRune ==
  (Called("LeftMv") /\ PreLeft # <<>> /\ IsRune(DecodeLastRune(PreLeft))) =>
    LET d == DecodeLastRune(PreLeft).size
        n == Len(PreLeft)
    IN /\ ~panicked
       /\ ~StringPanics(G)
       /\ StringPair(G) = <<SubSeq(PreLeft, 1, n - d),
                            SubSeq(PreLeft, n - d + 1, n) \o PreRight>>
       /\ String(G) = PreLeft \o PreRight

\* C3: RightMv from a state with StringPair() = (l, c + r'), c the first rune
\* of the non-empty right part, returns with StringPair() = (l + c, r'); it is
\* a no-op only when the right part is empty
C3_RightMvOneRune ==
  (Called("RightMv") /\ PreRight # <<>> /\ IsRune(DecodeRune(PreRight))) =>
    LET d == DecodeRune(PreRight).size
    IN /\ ~panicked
       /\ ~StringPanics(G)
       /\ StringPair(G) = <<PreLeft \o SubSeq(PreRight, 1, d),
                            SubSeq(PreRight, d + 1, Len(PreRight))>>
       /\ String(G) = PreLeft \o PreRight

\* every byte of s belongs to a well-formed rune
RECURSIVE ValidUTF8(_)
ValidUTF8(s) ==
  \/ s = <<>>
  \/ /\ IsRune(DecodeRune(s))
     /\ ValidUTF8(SubSeq(s, DecodeRune(s).size + 1, Len(s)))

\* n calls of LeftDel, of RightDel
RECURSIVE LeftDelN(_, _)
LeftDelN(g, n) == IF n = 0 THEN g ELSE LeftDelN(LeftDel(g), n - 1)

RECURSIVE RightDelN(_, _)
RightDelN(g, n) == IF n = 0 THEN g ELSE RightDelN(RightDel(g), n - 1)

\* g is the result of calls that returned, with StringPair() = <<l, r>>
Returns(g, l, r) == ~g.panic /\ ~StringPanics(g) /\ StringPair(g) = <<l, r>>

\* C4: LeftDel from a state with StringPair() = (l' + c, r), c the last rune of
\* the left part, returns with StringPair() = (l', r); as many LeftDel calls
\* as there are runes left of the cursor, or more, leave ("", r)
C4_LeftDelOneRune ==
  /\ (Called("LeftDel") /\ PreLeft # <<>> /\ IsRune(DecodeLastRune(PreLeft)))
       => Returns(G, SubSeq(PreLeft, 1,
                            Len(PreLeft) - DecodeLastRune(PreLeft).size),
                  PreRight)
  /\ (~panicked /\ ~StringPanics(G) /\ ValidUTF8(Left))
       => \A n \in RuneCount(Left)..(RuneCount(Left) + 1) :
            Returns(LeftDelN(G, n), <<>>, Right)

\* C5: RightDel from a state with StringPair() = (l, c + r'), c the first rune
\* of the right part (an ill-formed byte decodes as a rune of width one),
\* returns with StringPair() = (l, r'); as many RightDel calls as there are
\* runes right of the cursor, or more, leave (l, "")
C5_RightDelOneRune ==
  /\ (Called("RightDel") /\ PreRight # <<>>)
       => Returns(G, PreLeft,
                  SubSeq(PreRight, DecodeRune(PreRight).size + 1,
                         Len(PreRight)))
  /\ (~panicked /\ ~StringPanics(G))
       => \A n \in RuneCount(Right)..(RuneCount(Right) + 1) :
            Returns(RightDelN(G, n), Left, <<>>)

\* RightDel has deleted the two-byte rune right of the cursor, in front of
\* another rune
C5_Witness ==
  /\ Called("RightDel")
  /\ ~panicked
  /\ PreRight = StrO \o StrA
  /\ StringPair(G) = <<PreLeft, StrA>>

\* C6: whenever StringPair() returns (l, r), l + r = String() and
\* len(l) + len(r) = StringLength()
C6_SplitRoundTrip ==
  ~StringPanics(G) =>
    /\ Left \o Right = String(G)
    /\ Len(Left) + Len(Right) = StringLength(G)

\* the cursor stands inside the text, both parts non-empty, after an edit
C6_Witness ==
  /\ ~StringPanics(G)
  /\ Left # <<>>
  /\ Right # <<>>
  /\ inserts = 1
  /\ op = "LeftMv"
  /\ end - start >= 1

\* the bytes of s after its last newline (all of s when it has none)
RECURSIVE AfterLastNL(_)
AfterLastNL(s) ==
  IF s = <<>> \/ s[Len(s)] = NL THEN <<>>
  ELSE Append(AfterLastNL(SubSeq(s, 1, Len(s) - 1)), s[Len(s)])

\* the byte lengths of the lines of s, each with its terminating newline
RECURSIVE LineLens(_)
LineLens(s) ==
  IF \A i \in 1..Len(s) : s[i] # NL THEN <<Len(s)>>
  ELSE LET p == CHOOSE i \in 1..Len(s) :
                  s[i] = NL /\ \A j \in 1..(i - 1) : s[j] # NL
       IN <<p>> \o LineLens(SubSeq(s, p + 1, Len(s)))

\* C7: Line() = 1 + the number of newlines left of the cursor
C7_LineOfCursor ==
  ~StringPanics(G) => Line(G) = 1 + CountNL(Left)

\* C8: Col() is the number of bytes, RuneCol() the number of runes, of the
\* left part after its last newline; LineCol and LineRuneCol pair them with
\* Line()
C8_ColOfCursor ==
  ~StringPanics(G) =>
    /\ ~ColPanics(G)
    /\ ~RuneColPanics(G)
    /\ Col(G) = Len(AfterLastNL(Left))
    /\ RuneCol(G) = RuneCount(AfterLastNL(Left))
    /\ LineCol(G) = <<Line(G), Col(G)>>
    /\ LineRuneCol(G) = <<Line(G), RuneCol(G)>>

\* the line-index gap lies inside lengths
LinesInRange ==
  /\ lines.start >= 0
  /\ lines.start < lines.end
  /\ lines.end <= size(lines)

\* the slots outside the line-index gap, in order
UsedSlots ==
  Slice(lines.lengths, 0, lines.start + 1)
    \o Slice(lines.lengths, lines.end, size(lines))

\* C9: the slots outside the line-index gap are the byte lengths of the lines
\* of String(); the slot at lines.start is that of the cursor's line
C9_SlotsAreLineLengths ==
  ~StringPanics(G) =>
    /\ LinesInRange
    /\ UsedSlots = LineLens(String(G))
    /\ curLineLength(lines) = LineLens(String(G))[CountNL(Left) + 1]

\* C10: the number of slots in use is the number of newlines of String() + 1
C10_SlotCount ==
  ~StringPanics(G) =>
    (lines.start + 1) + (size(lines) - lines.end) = CountNL(String(G)) + 1

\* --------------------------------------------------- vertical cursor moves
\* the byte offset in s of its line k (k = 0 for the first line)
LineStartOff(s, k) == SumSeq(SubSeq(LineLens(s), 1, k))

\* the text of line k of s, without its newline
LineText(s, k) ==
  LET off == LineStartOff(s, k)
      n == LineLens(s)[k + 1]
      last == k + 1 = Len(LineLens(s))
  IN SubSeq(s, off + 1, off + (IF last THEN n ELSE n - 1))

\* the number of bytes of the first min(n, RuneCount(t)) runes of t
RECURSIVE RunePrefixLen(_, _)
RunePrefixLen(t, n) ==
  IF n <= 0 \/ t = <<>> THEN 0
  ELSE LET d == DecodeRune(t).size
       IN d + RunePrefixLen(SubSeq(t, d + 1, Len(t)), n - 1)

\* the byte offset in s of rune column min(wants, runes of line k) of line k
VertTarget(s, k, wants) ==
  LineStartOff(s, k) + RunePrefixLen(LineText(s, k), wants)

\* s split at byte offset p
SplitAt(s, p) == <<SubSeq(s, 1, p), SubSeq(s, p + 1, Len(s))>>

\* g is the result of a call that returned with the text s split at offset p
ReturnsAt(g, s, p) ==
  ~g.panic /\ ~StringPanics(g) /\ StringPair(g) = SplitAt(s, p)

\* C11: with a newline left of the cursor (cursor not on the first line) UpMv
\* returns with String() unchanged and the cursor on the preceding line at
\* rune column min(wantsCol, runes of that line)
C11_UpMvPrevLine ==
  (~panicked /\ ~StringPanics(G) /\ CountNL(Left) >= 1) =>
    ReturnsAt(UpMv(G), String(G),
              VertTarget(String(G), CountNL(Left) - 1, wantsCol))

\* C12: with a newline right of the cursor (cursor not on the last line)
\* DownMv returns with String() unchanged and the cursor on the following
\* line at rune column min(wantsCol, runes of that line)
C12_DownMvNextLine ==
  (~panicked /\ ~StringPanics(G) /\ CountNL(Right) >= 1) =>
    ReturnsAt(DownMv(G), String(G),
              VertTarget(String(G), CountNL(Left) + 1, wantsCol))

\* C13: UpMv and DownMv leave wantsCol as it is; with the lines "Some text",
\* "No", "More text" and the cursor at rune column 5 of line 3, one UpMv gives
\* column 2 of line 2 and a second UpMv column 5 of line 1
C13_VerticalKeepsWantsCol ==
  /\ ~panicked =>
       /\ UpMv(G).wantsCol = wantsCol
       /\ DownMv(G).wantsCol = wantsCol
  /\ (/\ ~panicked
      /\ ~StringPanics(G)
      /\ StringPair(G) = SplitAt(StrSomeText, 18)
      /\ wantsCol = 5)
       => LET g1 == UpMv(G)
              g2 == UpMv(g1)
          IN /\ ReturnsAt(g1, StrSomeText, 12)
             /\ LineRuneCol(g1) = <<2, 2>>
             /\ ReturnsAt(g2, StrSomeText, 5)
             /\ LineRuneCol(g2) = <<1, 5>>
             /\ g2.wantsCol = 5

\* the second UpMv of that example has brought the cursor from the end of
\* "No" back to rune column 5 of "Some text"
C13_Witness ==
  /\ Called("UpMv")
  /\ ~panicked
  /\ pre = SplitAt(StrSomeText, 12)
  /\ StringPair(G) = SplitAt(StrSomeText, 5)
  /\ wantsCol = 5
  /\ RuneCol(G) = 5

\* what a caller sees of the cursor: StringPair(), Line() and Col()
CursorView(g) == <<StringPair(g), Line(g), Col(g)>>

\* g is the result of calls that returned and its queries return
Answers(g) == ~g.panic /\ ~StringPanics(g) /\ ~ColPanics(g)

\* C14: with the cursor on line 2 or later and wantsCol = RuneCol(), UpMv
\* followed by DownMv returns with StringPair(), Line() and Col() as before
C14_UpDownRoundTrip ==
  (/\ Answers(G)
   /\ CountNL(Left) >= 1
   /\ ~RuneColPanics(G)
   /\ wantsCol = RuneCol(G))
    => /\ Answers(DownMv(UpMv(G)))
       /\ CursorView(DownMv(UpMv(G))) = CursorView(G)

\* n calls of LeftMv, of RightMv; a call that panics ends the sequence
RECURSIVE LeftMvN(_, _)
LeftMvN(g, n) ==
  IF n = 0 THEN g
  ELSE LET h == LeftMv(g) IN IF h.panic THEN h ELSE LeftMvN(h, n - 1)

RECURSIVE RightMvN(_, _)
RightMvN(g, n) ==
  IF n = 0 THEN g
  ELSE LET h == RightMv(g) IN IF h.panic THEN h ELSE RightMvN(h, n - 1)

\* C15: for n up to the number of runes left of the cursor, n LeftMv followed
\* by n RightMv return with String(), StringPair(), Line() and Col() as before
C15_LeftRightRoundTrip ==
  Answers(G) =>
    \A n \in 1..RuneCount(Left) :
      LET g == RightMvN(LeftMvN(G, n), n)
      IN /\ Answers(g)
         /\ CursorView(g) = CursorView(G)
         /\ String(g) = String(G)

C17_VerticalNoOps ==
  (~panicked /\ ~StringPanics(G)) =>
    /\ CountNL(Left) = 0 => UpMv(G) = G
    /\ CountNL(Right) = 0 => DownMv(G) = G

\* C18: LineLength() is the byte length of the text of the cursor's line, the
\* part right of the cursor included: 5 after NewStr("Hello\nWorld!") and one
\* UpMv, 14 for NewStr("Hello, Wôrld!")
C18_LineLength ==
  (~panicked /\ ~StringPanics(G)) =>
    /\ ~curLineLengthPanics(lines)
    /\ LineLength(G) = Len(LineText(String(G), CountNL(Left)))
    /\ (Called("UpMv") /\ pre = <<StrHelloWorld, <<>>>>) => LineLength(G) = 5
    /\ (op = "New" /\ String(G) = StrHelloWorldO) => LineLength(G) = 14

\* ------------------------------------------------------------ construction
\* the buffer the program holds is the one a correct constructor returns for
\* the text s and the capacity c
ConstructedFrom(s, c) ==
  /\ ~panicked
  /\ ~StringPanics(G)
  /\ StringPair(G) = <<s, <<>>>>
  /\ Size(G) = Max(c, 2 * Len(s))
  /\ ~ColPanics(G)
  /\ Line(G) = 1 + CountNL(s)
  /\ wantsCol = RuneCount(LineText(s, CountNL(s)))

\* C19: NewStrCap(s, c) returns a buffer with StringPair() = (s, ""),
\* Size() = max(c, 2*len(s)), Line() = 1 + the number of '\n' in s and
\* wantsCol = the number of runes after the last '\n' of s; NewCap(n) returns
\* an empty buffer of Size() n at line 1, column 0; New and NewStr use the
\* capacity 1024
C19_Construction ==
  /\ op = "NewStrCap" => ConstructedFrom(arg[1], arg[2])
  /\ op = "NewStr" => ConstructedFrom(arg[1], 1024)
  /\ op = "NewCap" =>
       ConstructedFrom(<<>>, arg[2]) /\ Size(G) = arg[2] /\ Col(G) = 0
  /\ op = "New" => ConstructedFrom(<<>>, 1024) /\ Size(G) = 1024 /\ Col(G) = 0
  /\ (op = "NewStrCap" /\ arg = <<StrHelloCommaWorld, 10>>) => Size(G) = 26
  /\ (op = "NewCap" /\ arg = <<StrEmpty, 10>>) => Size(G) = 10

\* C20: a buffer constructed with capacity 0 holds the empty text and accepts
\* Insert: after Insert(s) of a non-empty s, String() = s and
\* StringPair() = (s, "")
C20_ZeroCapInsert ==
  (op = "New" /\ Size(G) = 0) =>
    /\ ~panicked
    /\ ~StringPanics(G)
    /\ StringPair(G) = <<StrEmpty, StrEmpty>>
    /\ \A s \in InsertStrs \ {StrEmpty} :
         LET g == Insert(G, s)
         IN /\ ~g.panic
            /\ ~StringPanics(g)
            /\ String(g) = s
            /\ StringPair(g) = <<s, StrEmpty>>

\* ----------------------------------------------------- invariants, safety
\* C21: in every reachable state the byte gap is well formed,
\* 0 <= start <= end <= len(data)
C21_GapWellFormed == 0 <= start /\ start <= end /\ end <= Len(data)

\* C22: the initial text and every inserted text being well-formed UTF-8,
\* both parts of StringPair() are well-formed UTF-8 in every reachable state:
\* no move and no deletion leaves the cursor inside a multi-byte character
C22_PartsAreUTF8 ==
  (~panicked /\ ~StringPanics(G)) => ValidUTF8(Left) /\ ValidUTF8(Right)

\* C23: when the bytes next to the cursor are not a valid UTF-8 encoding,
\* LeftMv and LeftDel (bytes left of the cursor), RightMv and RightDel (bytes
\* right of it) end in a panic; none of them completes with a changed state
C23_MalformedPanics ==
  (~panicked /\ ~StringPanics(G)) =>
    /\ (Left # <<>> /\ ~IsRune(DecodeLastRune(Left))) =>
         LeftMv(G).panic /\ LeftDel(G).panic
    /\ (Right # <<>> /\ ~IsRune(DecodeRune(Right))) =>
         RightMv(G).panic /\ RightDel(G).panic

\* C24: the desired column is refreshed by every horizontal move and every
\* edit: right after a LeftMv, RightMv, LeftDel or RightDel that had a rune
\* to act on, and right after an Insert, wantsCol = RuneCol()
C24_WantsColRefreshed ==
  (~panicked /\ (\/ (op \in {"LeftMv", "LeftDel"} /\ Len(pre) = 2
                       /\ PreLeft # <<>>)
                 \/ (op \in {"RightMv", "RightDel"} /\ Len(pre) = 2
                       /\ PreRight # <<>>)
                 \/ Called("Insert"))) =>
    ~RuneColPanics(G) /\ wantsCol = RuneCol(G)

\* ---------------------------------------------------- "Hello World!" run
StrHello == SubSeq(StrHelloSpaceWorld, 1, 5)
StrHelloSpace == SubSeq(StrHelloSpaceWorld, 1, 6)
StrWorld == SubSeq(StrHelloSpaceWorld, 7, 12)

\* the buffer is NewStr("Hello World!") after six LeftMv
SixLeft == LeftMvN(G, 6)

\* C25: from NewStr("Hello World!"), six LeftMv put the cursor between
\* "Hello " and "World!", and Insert("\nfunny\n") then gives
\* StringPair() = ("Hello \nfunny\n", "World!"): the blank before the cursor
\* stays
C25_ScenarioD ==
  /\ op = "New" =>
       /\ ~SixLeft.panic /\ StringPair(SixLeft) = <<StrHelloSpace, StrWorld>>
       /\ ~Insert(SixLeft, StrFunny).panic
       /\ StringPair(Insert(SixLeft, StrFunny))
            = <<StrHelloSpace \o StrFunny, StrWorld>>
  /\ (Called("Insert") /\ pre = <<StrHelloSpace, StrWorld>>) =>
       ~panicked /\ StringPair(G) = <<StrHelloSpace \o StrFunny, StrWorld>>

C25_Witness ==
  /\ Called("Insert") /\ ~panicked
  /\ pre = <<StrHelloSpace, StrWorld>>
  /\ StringPair(G) = <<StrHelloSpace \o StrFunny, StrWorld>>

\* C25 as first stated: the same run gives ("Hello\nfunny\n", "World!")
C25_ScenarioD_NoBlank ==
  /\ op = "New" =>
       StringPair(Insert(SixLeft, StrFunny)) = <<StrHello \o StrFunny, StrWorld>>
  /\ (Called("Insert") /\ pre = <<StrHelloSpace, StrWorld>>) =>
       StringPair(G) = <<StrHello \o StrFunny, StrWorld>>

\* ------------------------------------------------------------ frame, safety
\* C26: a cursor move never changes the text: LeftMv, RightMv, UpMv and
\* DownMv leave String() byte for byte as it was
C26_MovesKeepText ==
  (op \in {"LeftMv", "RightMv", "UpMv", "DownMv"} /\ Len(pre) = 2
     /\ ~panicked) =>
    ~StringPanics(G) /\ String(G) = PreLeft \o PreRight

\* C27: every call completes, whatever the initial capacity and the calls
\* before it: no call ends in a runtime panic, and the gap of the line index
\* stays well formed, 0 <= lines.start < lines.end <= len(lengths)
C27_CallsComplete ==
  /\ ~panicked
  /\ 0 <= lines.start
  /\ lines.start < lines.end
  /\ lines.end <= size(lines)

\* ------------------------------------------------- deletions and the index
\* the number of line-index slots of g outside the index gap
SlotCount(g) == (g.lines.start + 1) + (size(g.lines) - g.lines.end)

\* the byte length, as the index counts it, of the line of String(g) the
\* cursor of g stands in
CursorLineLen(g) == LineLens(String(g))[CountNL(StringPair(g)[1]) + 1]

\* g0 has become g by the deletion of a newline: one slot less, and the slot
\* of the cursor's line holds the length of the merged line
Merged(g0, g) ==
  /\ ~g.panic
  /\ ~StringPanics(g)
  /\ SlotCount(g) = SlotCount(g0) - 1
  /\ ~curLineLengthPanics(g.lines)
  /\ curLineLength(g.lines) = CursorLineLen(g)

\* C28: deleting a newline merges two lines: after LeftDel of a '\n' the
\* index has one slot less, Line() is one less and the current slot holds the
\* byte length of the merged line; after RightDel of a '\n' the slot of the
\* next line is gone, Line() is the same and the current slot holds the byte
\* length of the merged line
C28_NewlineDeleteMerges ==
  (~panicked /\ ~StringPanics(G)) =>
    /\ (Left # <<>> /\ Left[Len(Left)] = NL) =>
         Merged(G, LeftDel(G)) /\ Line(LeftDel(G)) = Line(G) - 1
    /\ (Right # <<>> /\ Right[1] = NL) =>
         Merged(G, RightDel(G)) /\ Line(RightDel(G)) = Line(G)

\* the texts of exactly one rune among the Insert arguments
OneRuneStrs == {s \in InsertStrs : s # <<>> /\ DecodeRune(s).size = Len(s)}

\* every query of g answers
AnswersAll(g) == Answers(g) /\ ~curLineLengthPanics(g.lines)

\* what a caller can observe of g
Observed(g) == <<String(g), StringPair(g), Line(g), Col(g), LineLength(g)>>

\* C29: inserting one rune and deleting it again restores everything a
\* caller can observe: Insert(c) followed by LeftDel leaves String(),
\* StringPair(), Line(), Col() and LineLength() as they were, for c = "a",
\* "\n", a two-byte and a four-byte rune
C29_InsertLeftDelIdentity ==
  (~panicked /\ AnswersAll(G)) =>
    \A c \in OneRuneStrs :
      /\ AnswersAll(LeftDel(Insert(G, c)))
      /\ Observed(LeftDel(Insert(G, c))) = Observed(G)

\* every slot of the line index l outside its gap is at least 0
SlotsNonNegative(l) ==
  \A i \in 1..size(l) : (i <= l.start + 1 \/ i > l.end) => l.lengths[i] >= 0

\* C30: recorded line lengths never go negative: every slot outside the
\* index gap is >= 0 in every reachable state, and the del(b) of a LeftDel
\* or RightDel never takes the slot of the current line below 0, whatever
\* the width b of the deleted rune
C30_LengthsNonNegative ==
  /\ SlotsNonNegative(lines)
  /\ ~panicked =>
       /\ SlotsNonNegative(LeftDel(G).lines)
       /\ SlotsNonNegative(RightDel(G).lines)

\* the line index l with the slot of its current line lowered by d
Shortened(l, d) == [l EXCEPT !.lengths[l.start + 1] = @ - d]

\* C31: LeftDel or RightDel of a rune other than '\n' lowers the slot of the
\* current line by the byte width of that rune and changes nothing else in
\* the line index
C31_DeleteShortensLine ==
  (~panicked /\ ~StringPanics(G)) =>
    /\ (Left # <<>> /\ DecodeLastRune(Left).r # NL) =>
         /\ ~LeftDel(G).panic
         /\ LeftDel(G).lines = Shortened(lines, DecodeLastRune(Left).size)
    /\ (Right # <<>> /\ DecodeRune(Right).r # NL) =>
         /\ ~RightDel(G).panic
         /\ RightDel(G).lines = Shortened(lines, DecodeRune(Right).size)

\* -------------------------------------------------------- lineBuffer.insert
\* the slots of the line index l outside its gap, in order
UsedOf(l) == Slice(l.lengths, 0, l.start + 1) \o Slice(l.lengths, l.end, size(l))

\* the k+1 slots that take the place of the current slot of l when str is
\* inserted at the byte offset pos
NewSlots(l, str, pos) ==
  LET lens == LineLens(str)
      n == Len(lens)
      head == pos - curLineStart(l)
      tail == curLineStart(l) + curLineLength(l) - pos
  IN [i \in 1..n |-> lens[i] + (IF i = 1 THEN head ELSE 0)
                             + (IF i = n THEN tail ELSE 0)]

\* l2 is l after a correct insert of str at pos
Inserted(l, l2, str, pos) ==
  /\ l2.start = l.start + CountNL(str)
  /\ Slice(l2.lengths, 0, l.start) = Slice(l.lengths, 0, l.start)
  /\ Slice(l2.lengths, l.start, l2.start + 1) = NewSlots(l, str, pos)
  /\ l2.start < l2.end
  /\ Slice(l2.lengths, l2.end, size(l2)) = Slice(l.lengths, l.end, size(l))
  /\ SumSeq(UsedOf(l2)) = SumSeq(UsedOf(l)) + Len(str)

\* the texts handed to lineBuffer.insert: the non-empty Insert arguments and
\* a text of many lines
IndexStrs == (InsertStrs \ {StrEmpty}) \cup {StrNL20}

\* C32: on an index that matches the content, insert(str, pos) with pos the
\* cursor's byte offset and str non-empty with k newlines replaces the
\* current slot by k+1 slots (the first with the bytes of the line before
\* pos, the last with the bytes of the line from pos on), advances
\* lines.start by k, leaves the slots right of the gap alone and adds
\* len(str) to the sum of the used slots
C32_IndexInsert ==
  (~panicked /\ ~StringPanics(G) /\ LinesInRange
     /\ UsedSlots = LineLens(String(G))) =>
    \A str \in IndexStrs :
      /\ ~insertPanics(lines, str, start)
      /\ Inserted(lines, insert(lines, str, start), str, start)

\* ------------------------------------------- slots right of the index gap
\* C33: the number of slots right of the index gap is the number of '\n'
\* in the right part of StringPair(), isLastLine() is true exactly when no
\* '\n' lies right of the cursor, and DownMv changes nothing exactly then
C33_RightSlots ==
  (~panicked /\ ~StringPanics(G)) =>
    /\ size(lines) - lines.end = CountNL(Right)
    /\ isLastLine(lines) <=> (CountNL(Right) = 0)
    /\ (DownMv(G) = G) <=> (CountNL(Right) = 0)

\* ------------------------------------------------------------ the byte gap
\* C34: a buffer built from an initial string starts with a gap of at least
\* one byte, every Insert leaves a gap of at least one byte, and so the gap
\* has at least one byte in every reachable state
C34_GapNotDegenerate ==
  /\ \A s \in InitStrs \cup TextStrs : \A c \in Caps :
       NewStrCap(s, c).end - NewStrCap(s, c).start >= 1
  /\ ~panicked =>
       /\ \A str \in InsertStrs :
            ~Insert(G, str).panic =>
              Insert(G, str).end - Insert(G, str).start >= 1
       /\ end - start >= 1

\* ------------------------------------------------- growth of the byte array
\* the moves and deletes applied to g
MovedOrDeleted(g) ==
  {LeftMv(g), RightMv(g), UpMv(g), DownMv(g), LeftDel(g), RightDel(g)}

\* h is g after a correct doubling of the byte array
Doubled(g, h) ==
  /\ Size(h) = 2 * Size(g)
  /\ h.start = g.start
  /\ Slice(h.data, 0, g.start) = Slice(g.data, 0, g.start)
  /\ Size(h) - h.end = Size(g) - g.end
  /\ Slice(h.data, h.end, Size(h)) = Slice(g.data, g.end, Size(g))

\* a step of the program that keeps to the growth rule of the byte array
GrowthStep ==
  /\ (op' = "Insert" /\ ~panicked') =>
       /\ Len(data') = IF end - start >= Len(arg') + 1
                       THEN Len(data) ELSE 2 * Len(data)
       /\ end - start < Len(arg') + 1 => Doubled(G, grow(G))
  /\ op' # "Insert" => Len(data') = Len(data)
  /\ Len(data') >= Len(data)

\* C35: Insert(s) keeps Size() when the gap has at least len(s) + 1 bytes and
\* doubles it otherwise; the doubling keeps start, the bytes before the gap
\* at the front and the bytes after the gap at the back of an array twice as
\* long; no other call changes Size(), and Size() never decreases
C35_Growth == [][GrowthStep]_vars

\* Insert("a\nb") was called on a two-byte array with "a" right of the
\* cursor and has returned with a four-byte array that holds the text and,
\* at its back, the old right part
C35_Witness ==
  /\ Called("Insert")
  /\ ~panicked
  /\ arg = StrANLB
  /\ pre = <<StrEmpty, StrA>>
  /\ Size(G) = 4
  /\ ~StringPanics(G)
  /\ StringPair(G) = <<StrANLB, StrA>>

\* ------------------------------------------------- growth of the line index
\* a text of ten lines
StrNL9 == [i \in 1..9 |-> NL]

\* the capacities handed to newLineBuf and the texts handed to insert
IndexCaps == {0, 1, 9, 10, 99, 100, 109, 110, 119, defaultCapacity}
GrowStrs == {StrEmpty, StrNL, StrANLB, StrNL9}

\* l is the line index newLineBuf has to return for the capacity c
FreshIndex(l, c) ==
  /\ size(l) = (IF c >= 100 THEN c \div 10 ELSE 10)
  /\ l.start = 0
  /\ l.end = size(l)
  /\ \A i \in 1..size(l) : l.lengths[i] = 0

\* l2 is the line index l after a correct doubling
IndexDoubled(l, l2) ==
  /\ size(l2) = 2 * size(l)
  /\ l2.start = l.start
  /\ Slice(l2.lengths, 0, l.start + 1) = Slice(l.lengths, 0, l.start + 1)
  /\ size(l2) - l2.end = size(l) - l.end
  /\ Slice(l2.lengths, l2.end, size(l2)) = Slice(l.lengths, l.end, size(l))

\* h is g after an Insert of str that has doubled the line index exactly
\* when its gap was too small and the byte array exactly when its gap was
IndexGrownAsNeeded(g, h, str) ==
  /\ size(h.lines)
       = IF /\ str # <<>>
            /\ g.lines.end - g.lines.start < Len(LineLens(str)) + 1
         THEN 2 * size(g.lines) ELSE size(g.lines)
  /\ Size(h) = IF g.end - g.start >= Len(str) + 1
               THEN Size(g) ELSE 2 * Size(g)

\* newLineBuf returns the claimed index for every capacity, and wherever
\* the program can still insert, an Insert doubles the index exactly when its
\* gap is too small for the text, as lineGrow has to, and the byte array
\* exactly when the byte gap is
IndexGrowthState ==
  /\ op = "New" => \A c \in IndexCaps : FreshIndex(newLineBuf(c), c)
  /\ (~panicked /\ inserts < MaxInserts) =>
       /\ \A str \in GrowStrs :
            LET h == Insert(G, str)
            IN ~h.panic => IndexGrownAsNeeded(G, h, str)
       /\ ~lineGrowPanics(lines) => IndexDoubled(lines, lineGrow(lines))
       /\ ~growPanics(G) => grow(G).lines = lines

\* a step of the program that keeps to the growth rule of the line index
IndexGrowthStep ==
  size(lines') =
    IF /\ op' = "Insert"
       /\ ~panicked'
       /\ arg' # <<>>
       /\ lines.end - lines.start < Len(LineLens(arg')) + 1
    THEN 2 * size(lines) ELSE size(lines)

\* C36: the line index is created with max(capacity/10, 10) slots, all 0,
\* start 0 and end at the slot count; it doubles in insert exactly when
\* lines.end - lines.start is smaller than the number of line slots of a
\* non-empty text plus one, and in no other call; the doubling keeps the
\* slots 0..lines.start at the front and the slots from lines.end on at the
\* back; growth of the byte array leaves the number of slots alone and
\* growth of the line index leaves Size() alone
C36_IndexGrowth == [](IndexGrowthState) /\ [][IndexGrowthStep]_vars

\* the cursor stands in a line with lines above and below it, the byte gap
\* has room for ten lines and the index gap has not: Insert of ten lines
\* returns with an index twice as long, its slots right of the gap kept, and
\* a byte array of the same size
C36_Witness ==
  /\ ~panicked
  /\ inserts < MaxInserts
  /\ lines.start >= 1
  /\ lines.end < size(lines)
  /\ lines.end - lines.start < Len(LineLens(StrNL9)) + 1
  /\ end - start >= Len(StrNL9) + 1
  /\ ~Insert(G, StrNL9).panic
  /\ size(Insert(G, StrNL9).lines) = 2 * size(lines)
  /\ Slice(Insert(G, StrNL9).lines.lengths, Insert(G, StrNL9).lines.end,
           2 * size(lines))
       = Slice(lines.lengths, lines.end, size(lines))
  /\ Size(Insert(G, StrNL9)) = Size(G)

\* ------------------------------------------------------------- Insert("")
\* the gap of g lies inside its byte array
GapInside(g) == 0 <= g.start /\ g.start <= g.end /\ g.end <= Len(g.data)

\* h is g with the same content, cursor and line index
SameContent(g, h) ==
  /\ ~StringPanics(g) =>
       /\ ~StringPanics(h)
       /\ String(h) = String(g)
       /\ StringPair(h) = StringPair(g)
  /\ Line(h) = Line(g)
  /\ ~ColPanics(g) => (~ColPanics(h) /\ Col(h) = Col(g))
  /\ h.lines.start = g.lines.start
  /\ h.lines.end = g.lines.end
  /\ UsedOf(h.lines) = UsedOf(g.lines)

\* C37: in every reachable state Insert("") returns and leaves String(),
\* StringPair(), Line(), Col() and the line index (start, end, used slots)
\* as they were, and 0 <= start <= end <= len(data) holds afterwards
C37_EmptyInsert ==
  ~panicked =>
    LET h == Insert(G, StrEmpty)
    IN ~h.panic /\ SameContent(G, h) /\ GapInside(h)

\* ------------------------------------------------ curLineStart, curLineEnd
\* the sum of the first k slots of the line index l
RECURSIVE SlotsBefore(_, _)
SlotsBefore(l, k) ==
  IF k = 0 THEN 0 ELSE SlotsBefore(l, k - 1) + l.lengths[k]

\* curLineStart and curLineEnd, where they return, return for the line
\* index l what is claimed
StartEndOf(l) ==
  /\ ~curLineStartPanics(l) => curLineStart(l) = SlotsBefore(l, l.start)
  /\ (~curLineStartPanics(l) /\ ~curLineEndPanics(l)) =>
       /\ l.lengths[l.start + 1] > 0 =>
            curLineEnd(l) = curLineStart(l) + curLineLength(l) - 1
       /\ l.lengths[l.start + 1] = 0 => curLineEnd(l) = curLineStart(l)

\* the line indexes of TestCurLineStartEndAscending, TestCurLineStartEndAll2s
\* and TestCurLineStartEndAll2s0
LinesAscending ==
  [start |-> 8, end |-> 10, lengths |-> <<1, 2, 3, 4, 5, 6, 7, 8, 9, 0>>]
LinesAll2s ==
  [start |-> 8, end |-> 10, lengths |-> <<2, 2, 2, 2, 2, 2, 2, 2, 2, 0>>]
LinesAll2s0 ==
  [start |-> 9, end |-> 10, lengths |-> <<2, 2, 2, 2, 2, 2, 2, 2, 2, 0>>]

\* C38: curLineStart() is the sum of the slots strictly before lines.start;
\* curLineEnd() is curLineStart() + curLineLength() - 1 when the slot of the
\* current line is greater than 0 and curLineStart() when it is 0; on the
\* line indexes of the tests they return 36 and 44, 16 and 17, 18 and 18
C38_LineStartEnd ==
  /\ StartEndOf(lines)
  /\ op = "New" =>
       /\ \A l \in {LinesAscending, LinesAll2s, LinesAll2s0} : StartEndOf(l)
       /\ curLineStart(LinesAscending) = 36 /\ curLineEnd(LinesAscending) = 44
       /\ curLineStart(LinesAll2s) = 16 /\ curLineEnd(LinesAll2s) = 17
       /\ curLineStart(LinesAll2s0) = 18 /\ curLineEnd(LinesAll2s0) = 18

\* RightMv has brought the cursor onto an empty line below other lines: the
\* line starts and ends at the same offset, the byte length of the text left
\* of the cursor
C38_Witness ==
  /\ Called("RightMv")
  /\ ~panicked
  /\ ~StringPanics(G)
  /\ lines.start >= 1
  /\ lines.start < size(lines)
  /\ curLineLength(lines) = 0
  /\ curLineStart(lines) > 0
  /\ curLineStart(lines) = Len(Left)
  /\ curLineEnd(lines) = curLineStart(lines)

====
